---- MODULE Spec2Model ----
(***************************************************************************)
(* Model of the preferences dialog of the sound switcher indicator         *)
(* (lib/indicator_sound_switcher/prefs.py): the notebook with its General  *)
(* and Devices pages, their signal handlers, and the calls they make on    *)
(* the externally owned indicator object (config item reads and writes,    *)
(* on_refresh()).                                                          *)
(*                                                                         *)
(* Every action is one toolkit event delivered to the dialog.  The handler *)
(* connected to the event is run to completion inside the action, and so   *)
(* is every handler of a signal that the handler's own calls raise         *)
(* (set_active() raising 'state-set', removing a selected list box row     *)
(* raising 'row-selected').                                                *)
(***************************************************************************)
EXTENDS Integers, Sequences, FiniteSets, TLC

\* Bounds of the model: the number of sound cards and of ports per card.
MaxCards == 2
MaxPorts == 1

Pages == {"general", "devices"}

\* Keys of indicator.config.  "devices" stands for every key other than the
\* two the General page deals with.
ConfigKeys == {"show_inputs", "show_outputs", "devices"}

\* A config item is absent ({}) or holds one boolean ({TRUE} or {FALSE}).
ConfigValues == {{}, {TRUE}, {FALSE}}

NoText == <<>>
TypedText == <<"typed", 0>>

VARIABLES
    config,                     \* indicator.config
    cards,                      \* indicator.cards (each card with its ports)
    is_initialised,             \* BasePage.is_initialised, per page
    switch_inputs,              \* GeneralPage.switch_inputs active state
    switch_outputs,             \* GeneralPage.switch_outputs active state
    listbox_devices,            \* rows of DevicesPage.listbox_devices (row.card)
    dev_selected,               \* selected row of listbox_devices, 0 = none
    listbox_ports,              \* rows of DevicesPage.listbox_ports (row.port)
    port_selected,              \* selected row of listbox_ports, 0 = none
    lbl_dev_props_placeholder,  \* visibility of the widget
    box_dev_props,              \* visibility of the widget
    lbl_port_props_placeholder, \* visibility of the widget
    box_port_props,             \* visibility of the widget
    entry_dev_name,             \* text of the widget
    entry_port_name,            \* text of the widget
    switch_port_visible,        \* active state of the widget
    switch_port_always_avail,   \* active state of the widget
    cur_page,                   \* the page of the last 'switch-page', "none" at start
    init_runs,                  \* history: number of initialise() calls per page
    effects,                    \* history: writes/calls on indicator made by the last event
    signals,                    \* history: signals handled during the last event
    lastEvent                   \* history: the last toolkit event

vars == <<config, cards, is_initialised, switch_inputs, switch_outputs,
          listbox_devices, dev_selected, listbox_ports, port_selected,
          lbl_dev_props_placeholder, box_dev_props, lbl_port_props_placeholder,
          box_port_props, entry_dev_name, entry_port_name, switch_port_visible,
          switch_port_always_avail, cur_page, init_runs, effects, signals,
          lastEvent>>

----
\* The external collaborators.

\* A port of card i.
Port(i, j) == [name |-> <<"port", i, j>>, display_name |-> <<"Port", i, j>>]

\* A card with n ports.
Card(i, n) ==
    [name |-> <<"card", i>>, display_name |-> <<"Card", i>>,
     ports |-> [j \in 1..n |-> Port(i, j)]]

\* Every indicator.cards the model starts from: up to MaxCards cards with up to
\* MaxPorts ports each.
CardSets ==
    UNION {{[i \in 1..n |-> Card(i, pc[i])] : pc \in [1..n -> 0..MaxPorts]}
           : n \in 0..MaxCards}

\* indicator.config[key, default]
config_getitem(cfg, key, default) ==
    IF cfg[key] = {} THEN default ELSE CHOOSE v \in cfg[key] : TRUE

\* indicator.config[key] = val
config_setitem(w, key, val) ==
    [w EXCEPT !.config[key] = {val},
              !.effects = Append(@, <<"setitem", key, val>>)]

\* indicator.on_refresh()
on_refresh(w) == [w EXCEPT !.effects = Append(@, <<"on_refresh">>)]

----
\* The state of the dialog as one record, so that handlers compose.
World ==
    [config |-> config, cards |-> cards, is_initialised |-> is_initialised,
     switch_inputs |-> switch_inputs, switch_outputs |-> switch_outputs,
     listbox_devices |-> listbox_devices, dev_selected |-> dev_selected,
     listbox_ports |-> listbox_ports, port_selected |-> port_selected,
     lbl_dev_props_placeholder |-> lbl_dev_props_placeholder,
     box_dev_props |-> box_dev_props,
     lbl_port_props_placeholder |-> lbl_port_props_placeholder,
     box_port_props |-> box_port_props,
     entry_dev_name |-> entry_dev_name, entry_port_name |-> entry_port_name,
     switch_port_visible |-> switch_port_visible,
     switch_port_always_avail |-> switch_port_always_avail,
     init_runs |-> init_runs,
     effects |-> <<>>, signals |-> <<>>]

\* The state after an event: the record the event's handler returned.
Commit(w, page, event) ==
    /\ config' = w.config
    /\ cards' = w.cards
    /\ is_initialised' = w.is_initialised
    /\ switch_inputs' = w.switch_inputs
    /\ switch_outputs' = w.switch_outputs
    /\ listbox_devices' = w.listbox_devices
    /\ dev_selected' = w.dev_selected
    /\ listbox_ports' = w.listbox_ports
    /\ port_selected' = w.port_selected
    /\ lbl_dev_props_placeholder' = w.lbl_dev_props_placeholder
    /\ box_dev_props' = w.box_dev_props
    /\ lbl_port_props_placeholder' = w.lbl_port_props_placeholder
    /\ box_port_props' = w.box_port_props
    /\ entry_dev_name' = w.entry_dev_name
    /\ entry_port_name' = w.entry_port_name
    /\ switch_port_visible' = w.switch_port_visible
    /\ switch_port_always_avail' = w.switch_port_always_avail
    /\ init_runs' = w.init_runs
    /\ effects' = w.effects
    /\ signals' = w.signals
    /\ cur_page' = page
    /\ lastEvent' = event

Raise(w, signal) == [w EXCEPT !.signals = Append(@, signal)]

----
\* GeneralPage

\* on_switch_inputs_set with the key of the other switch.
on_switch_inputs_set_WrongKey(w) ==
    IF ~w.is_initialised["general"]
    THEN w
    ELSE on_refresh(config_setitem(w, "show_outputs", w.switch_inputs))

\* GeneralPage.on_switch_inputs_set: widget.get_active() is w.switch_inputs.
on_switch_inputs_set(w) ==
    IF ~w.is_initialised["general"]
    THEN w
    ELSE on_refresh(config_setitem(w, "show_inputs", w.switch_inputs))

\* GeneralPage.on_switch_outputs_set: widget.get_active() is w.switch_outputs.
on_switch_outputs_set(w) ==
    IF ~w.is_initialised["general"]
    THEN w
    ELSE on_refresh(config_setitem(w, "show_outputs", w.switch_outputs))

\* switch_inputs.set_active(v): the switch takes the value and raises
\* 'state-set' when the value changes.
switch_inputs_set_active(w, v) ==
    IF w.switch_inputs = v
    THEN w
    ELSE on_switch_inputs_set(
             Raise([w EXCEPT !.switch_inputs = v], "switch_inputs state-set"))

\* switch_outputs.set_active(v)
switch_outputs_set_active(w, v) ==
    IF w.switch_outputs = v
    THEN w
    ELSE on_switch_outputs_set(
             Raise([w EXCEPT !.switch_outputs = v], "switch_outputs state-set"))

\* GeneralPage.initialise loading both switches from 'show_inputs'.
GeneralPage_initialise_SameKey(w) ==
    LET w1 == switch_inputs_set_active(
                  w, config_getitem(w.config, "show_inputs", TRUE))
    IN  switch_outputs_set_active(
            w1, config_getitem(w1.config, "show_inputs", TRUE))

\* GeneralPage.initialise
GeneralPage_initialise(w) ==
    LET w1 == switch_inputs_set_active(
                  w, config_getitem(w.config, "show_inputs", TRUE))
    IN  switch_outputs_set_active(
            w1, config_getitem(w1.config, "show_outputs", TRUE))

----
\* DevicesPage

\* update_port_props_widgets storing the shown port's visibility in the config.
update_port_props_widgets_Stores(w) ==
    LET row == w.port_selected
    IN  IF row = 0
        THEN [w EXCEPT !.lbl_port_props_placeholder = TRUE,
                       !.box_port_props = FALSE]
        ELSE config_setitem(
                 [w EXCEPT !.entry_port_name = w.listbox_ports[row].display_name,
                           !.box_port_props = TRUE,
                           !.lbl_port_props_placeholder = FALSE],
                 "devices", w.switch_port_visible)

\* DevicesPage.update_port_props_widgets
update_port_props_widgets(w) ==
    LET row == w.port_selected
    IN  IF row = 0
        THEN [w EXCEPT !.lbl_port_props_placeholder = TRUE,
                       !.box_port_props = FALSE]
        ELSE [w EXCEPT !.entry_port_name = w.listbox_ports[row].display_name,
                       !.box_port_props = TRUE,
                       !.lbl_port_props_placeholder = FALSE]

\* DevicesPage.on_port_row_selected
on_port_row_selected(w) == update_port_props_widgets(w)

\* The loop removing every row of listbox_ports.  Removing the selected row
\* clears the selection and raises 'row-selected'; the handler does not look
\* at the remaining rows.
listbox_ports_remove_all(w) ==
    IF w.port_selected # 0
    THEN on_port_row_selected(
             Raise([w EXCEPT !.listbox_ports = <<>>, !.port_selected = 0],
                   "listbox_ports row-selected"))
    ELSE [w EXCEPT !.listbox_ports = <<>>]

\* DevicesPage.update_dev_props_widgets
update_dev_props_widgets(w) ==
    LET row == w.dev_selected
        w1 == listbox_ports_remove_all(w)
    IN  IF row = 0
        THEN [w1 EXCEPT !.lbl_dev_props_placeholder = TRUE,
                        !.box_dev_props = FALSE]
        ELSE LET card == w1.cards[w1.listbox_devices[row]]
             IN  [w1 EXCEPT !.entry_dev_name = card.display_name,
                            !.listbox_ports = card.ports,
                            !.box_dev_props = TRUE,
                            !.lbl_dev_props_placeholder = FALSE]

\* DevicesPage.on_device_row_selected
on_device_row_selected(w) == update_dev_props_widgets(w)

\* DevicesPage.initialise: one row per card, show_all(), then both updates.
DevicesPage_initialise(w) ==
    LET w1 == [w EXCEPT !.listbox_devices =
                            @ \o [i \in 1..Len(w.cards) |-> i],
                        !.lbl_dev_props_placeholder = TRUE,
                        !.box_dev_props = TRUE,
                        !.lbl_port_props_placeholder = TRUE,
                        !.box_port_props = TRUE]
    IN  update_port_props_widgets(update_dev_props_widgets(w1))

----
\* BasePage and MainNotebook

\* The page's initialise(), counted.
initialise(w, p) ==
    LET w1 == [w EXCEPT !.init_runs[p] = @ + 1]
    IN  IF p = "general" THEN GeneralPage_initialise(w1)
                         ELSE DevicesPage_initialise(w1)

\* on_activate without the is_initialised test.
on_activate_Always(w, p) ==
    [initialise(w, p) EXCEPT !.is_initialised[p] = TRUE]

\* on_activate raising the flag before initialise() runs.
on_activate_FlagFirst(w, p) ==
    IF ~w.is_initialised[p]
    THEN initialise([w EXCEPT !.is_initialised[p] = TRUE], p)
    ELSE w

\* BasePage.on_activate
on_activate(w, p) ==
    IF ~w.is_initialised[p]
    THEN [initialise(w, p) EXCEPT !.is_initialised[p] = TRUE]
    ELSE w

\* MainNotebook.on_switch_page
on_switch_page(w, p) == on_activate(w, p)

----
Init ==
    /\ config \in [ConfigKeys -> ConfigValues]
    /\ config["devices"] = {}
    /\ cards \in CardSets
    /\ is_initialised = [p \in Pages |-> FALSE]
    /\ switch_inputs = FALSE
    /\ switch_outputs = FALSE
    /\ listbox_devices = <<>>
    /\ dev_selected = 0
    /\ listbox_ports = <<>>
    /\ port_selected = 0
    /\ lbl_dev_props_placeholder = TRUE
    /\ box_dev_props = TRUE
    /\ lbl_port_props_placeholder = TRUE
    /\ box_port_props = TRUE
    /\ entry_dev_name = NoText
    /\ entry_port_name = NoText
    /\ switch_port_visible = FALSE
    /\ switch_port_always_avail = FALSE
    /\ cur_page = "none"
    /\ init_runs = [p \in Pages |-> 0]
    /\ effects = <<>>
    /\ signals = <<>>
    /\ lastEvent = "none"

\* 'switch-page' of the notebook to page p.
SwitchPage(p) ==
    Commit(on_switch_page(Raise(World, "switch-page"), p), p, "switch-page")

\* The 'Show inputs' switch is flipped.
ToggleInputs ==
    Commit(switch_inputs_set_active(World, ~switch_inputs), cur_page,
           "switch_inputs state-set")

\* The 'Show outputs' switch is flipped.
ToggleOutputs ==
    Commit(switch_outputs_set_active(World, ~switch_outputs), cur_page,
           "switch_outputs state-set")

\* Row i of the device list is selected (i = 0: the selection is cleared).
SelectDevice(i) ==
    /\ cur_page = "devices"
    /\ i # dev_selected
    /\ Commit(on_device_row_selected(
                  Raise([World EXCEPT !.dev_selected = i],
                        "listbox_devices row-selected")),
              cur_page, "listbox_devices row-selected")

\* Row j of the port list is selected (j = 0: the selection is cleared).
SelectPort(j) ==
    /\ cur_page = "devices"
    /\ box_dev_props
    /\ j # port_selected
    /\ Commit(on_port_row_selected(
                  Raise([World EXCEPT !.port_selected = j],
                        "listbox_ports row-selected")),
              cur_page, "listbox_ports row-selected")

\* The port's 'Visible' switch is flipped: no handler is connected.
TogglePortVisible ==
    /\ cur_page = "devices"
    /\ box_port_props
    /\ Commit([World EXCEPT !.switch_port_visible = ~@], cur_page,
              "switch_port_visible state-set")

\* The port's 'Always available' switch is flipped: no handler is connected.
TogglePortAlwaysAvail ==
    /\ cur_page = "devices"
    /\ box_port_props
    /\ Commit([World EXCEPT !.switch_port_always_avail = ~@], cur_page,
              "switch_port_always_avail state-set")

\* The device's custom name is typed over: no handler is connected.
EditDevName ==
    /\ cur_page = "devices"
    /\ box_dev_props
    /\ entry_dev_name # TypedText
    /\ Commit([World EXCEPT !.entry_dev_name = TypedText], cur_page,
              "entry_dev_name changed")

\* The port's custom name is typed over: no handler is connected.
EditPortName ==
    /\ cur_page = "devices"
    /\ box_port_props
    /\ entry_port_name # TypedText
    /\ Commit([World EXCEPT !.entry_port_name = TypedText], cur_page,
              "entry_port_name changed")

Next ==
    \/ \E p \in Pages : SwitchPage(p)
    \/ ToggleInputs
    \/ ToggleOutputs
    \/ \E i \in 0..Len(listbox_devices) : SelectDevice(i)
    \/ \E j \in 0..Len(listbox_ports) : SelectPort(j)
    \/ TogglePortVisible
    \/ TogglePortAlwaysAvail
    \/ EditDevName
    \/ EditPortName

Spec == Init /\ [][Next]_vars

----
\* The properties checked.

GeneralKeys == {"show_inputs", "show_outputs"}

DevicesEvents ==
    {"listbox_devices row-selected", "listbox_ports row-selected",
     "switch_port_visible state-set", "switch_port_always_avail state-set",
     "entry_dev_name changed", "entry_port_name changed"}

Writes(eff) == {n \in 1..Len(eff) : eff[n][1] = "setitem"}
Refreshes(eff) == {n \in 1..Len(eff) : eff[n][1] = "on_refresh"}

\* C1: once the General page is initialised, a 'state-set' of the 'Show inputs'
\* switch stores the switch's active value under 'show_inputs' and then calls
\* on_refresh() exactly once, in that order, and leaves 'show_outputs' alone;
\* the 'Show outputs' switch does the same with 'show_outputs', leaving
\* 'show_inputs' alone.
C1_StateSetStoresThenRefreshes ==
    [][/\ (lastEvent' = "switch_inputs state-set" /\ is_initialised["general"])
              => /\ effects' = << <<"setitem", "show_inputs", switch_inputs'>>,
                                  <<"on_refresh">> >>
                 /\ config'["show_inputs"] = {switch_inputs'}
                 /\ config'["show_outputs"] = config["show_outputs"]
       /\ (lastEvent' = "switch_outputs state-set" /\ is_initialised["general"])
              => /\ effects' = << <<"setitem", "show_outputs", switch_outputs'>>,
                                  <<"on_refresh">> >>
                 /\ config'["show_outputs"] = {switch_outputs'}
                 /\ config'["show_inputs"] = config["show_inputs"]
      ]_vars

\* C1 witness: the initialised General page has handled a 'state-set' that
\* turned 'Show inputs' off, stored it and refreshed, while 'show_outputs'
\* still holds the other value.
C1_Witness ==
    /\ lastEvent = "switch_inputs state-set"
    /\ is_initialised["general"]
    /\ switch_inputs = FALSE
    /\ effects = << <<"setitem", "show_inputs", FALSE>>, <<"on_refresh">> >>
    /\ config["show_inputs"] = {FALSE}
    /\ config["show_outputs"] = {TRUE}

\* C2: the first activation of the General page leaves the 'Show inputs'
\* switch at the value stored under 'show_inputs' and the 'Show outputs'
\* switch at the value stored under 'show_outputs', True standing for a key
\* that holds no value.
C2_InitialiseLoadsSwitches ==
    [][(lastEvent' = "switch-page" /\ cur_page' = "general"
            /\ ~is_initialised["general"])
          => /\ switch_inputs' = config_getitem(config, "show_inputs", TRUE)
             /\ switch_outputs' = config_getitem(config, "show_outputs", TRUE)
             /\ switch_inputs' = config_getitem(config', "show_inputs", TRUE)
             /\ switch_outputs' = config_getitem(config', "show_outputs", TRUE)
      ]_vars

\* C2 witness: the General page has just been initialised from a config that
\* stores False for 'show_inputs' and nothing for 'show_outputs'.
C2_Witness ==
    /\ lastEvent = "switch-page"
    /\ cur_page = "general"
    /\ init_runs["general"] = 1
    /\ config["show_inputs"] = {FALSE}
    /\ config["show_outputs"] = {}
    /\ switch_inputs = FALSE
    /\ switch_outputs = TRUE

\* C3: no event writes a config key other than 'show_inputs' and
\* 'show_outputs', and every Devices-page event leaves the config, the cards
\* and their ports unchanged and does not call on_refresh().
C3_OnlyGeneralKeysWritten ==
    [][/\ \A n \in Writes(effects') : effects'[n][2] \in GeneralKeys
       /\ \A k \in ConfigKeys \ GeneralKeys : config'[k] = config[k]
       /\ cards' = cards
       /\ lastEvent' \in DevicesEvents
              => /\ config' = config
                 /\ Writes(effects') = {}
                 /\ Refreshes(effects') = {}
      ]_vars

\* C3 witness: a port row has just been selected on the Devices page and its
\* settings are shown, after the General page was initialised.
C3_Witness ==
    /\ lastEvent = "listbox_ports row-selected"
    /\ port_selected # 0
    /\ box_port_props
    /\ is_initialised["general"]
    /\ effects = <<>>

\* C4: for each page initialise() runs at most once, is_initialised never goes
\* from True back to False, and a 'switch-page' activates the page switched to
\* and leaves the other page's is_initialised flag (and its initialise()
\* count) unchanged.
C4_InitialisedOnce ==
    [][/\ \A p \in Pages : /\ init_runs'[p] <= 1
                           /\ is_initialised[p] => is_initialised'[p]
       /\ lastEvent' = "switch-page"
              => /\ is_initialised'[cur_page']
                 /\ init_runs'[cur_page'] = 1
                 /\ \A p \in Pages \ {cur_page'} :
                        /\ is_initialised'[p] = is_initialised[p]
                        /\ init_runs'[p] = init_runs[p]
      ]_vars

\* C4 witness: the Devices page has been activated again (a device is
\* selected, so this is not its first activation) while the General page was
\* never activated.
C4_Witness ==
    /\ lastEvent = "switch-page"
    /\ cur_page = "devices"
    /\ dev_selected # 0
    /\ init_runs["devices"] = 1
    /\ is_initialised["devices"]
    /\ ~is_initialised["general"]

\* C5: while the General page is not initialised a 'state-set' of either
\* switch leaves the config unchanged and calls nothing; the 'state-set'
\* events raised inside GeneralPage.initialise() are handled in that state, so
\* activating the General page writes no config key and triggers no refresh.
C5_NoWriteBeforeInitialised ==
    [][/\ (lastEvent' \in {"switch_inputs state-set", "switch_outputs state-set"}
              /\ ~is_initialised["general"])
              => (config' = config /\ effects' = <<>>)
       /\ (lastEvent' = "switch-page" /\ cur_page' = "general")
              => (config' = config /\ effects' = <<>>)
      ]_vars

\* C5 witness: the General page has just been initialised and both switches
\* raised 'state-set' inside initialise(), with nothing written or refreshed.
C5_Witness ==
    /\ lastEvent = "switch-page"
    /\ cur_page = "general"
    /\ signals = <<"switch-page", "switch_inputs state-set",
                   "switch_outputs state-set">>
    /\ effects = <<>>
    /\ config["show_inputs"] = {}

====
